---- MODULE Spec2Model ----
(***************************************************************************)
(* A model of ncr-bind-forms: the view <-> model synchronisation pipeline  *)
(* that setUpControl wires between a BindFormControl and the directive     *)
(* bound to it (directives/shared.ts), the submit handling of the form     *)
(* directives, and the pure validator functions of BindValidators.         *)
(***************************************************************************)
EXTENDS Integers, Sequences, FiniteSets

VARIABLES
    \* the form: its controls, the directives bound to them, the last handler
    ctl, updateOn, transformer, dirCtl, viewModel, directives, submitted, last,
    \* the form directive's handler called last, of onSubmit, onReset, resetForm
    formCall,
    \* BindValidators.compose: the validator list and the composed result
    validators, composed,
    \* BindValidators.composeAsync: the list, the constituents, the output
    asyncValidators, obs, out,
    \* the built-in validators: the control value and the errors returned
    control, errors,
    \* the reactive directives: class, accessor capability, warning bookkeeping
    cls, hasSetDisabledState, devMode, _ngModelWarningConfig,
    _ngModelWarningSentOnce, _ngModelWarningSent, firstChange, warnings,
    \* NgBindModel: its parent, inputs, registration flag, and the callbacks
    \* queued on resolvedPromise
    _parent, nameAttribute, name, options, _registered, microtasks,
    \* the value accessors: the element's value property, the composition
    \* flags of DefaultBindValueAccessor, the event handled last
    element, _compositionMode, _composing, domEvent

formVars == <<ctl, updateOn, transformer, dirCtl, viewModel, directives, submitted, last,
              formCall>>
composeVars == <<validators, composed>>
asyncVars == <<asyncValidators, obs, out>>
builtinVars == <<control, errors>>
reactiveVars == <<cls, hasSetDisabledState, devMode, _ngModelWarningConfig,
                  _ngModelWarningSentOnce, _ngModelWarningSent, firstChange, warnings>>
ngModelVars == <<_parent, nameAttribute, name, options, _registered, microtasks>>
accessorVars == <<element, _compositionMode, _composing, domEvent>>
directiveVars == <<reactiveVars, ngModelVars, accessorVars>>
vars == <<formVars, composeVars, asyncVars, builtinVars, directiveVars>>

(***************************************************************************)
(* Bounds.                                                                 *)
(***************************************************************************)
NumControls == 1
NumDirs == 2

Controls == 1..NumControls
Dirs == 1..NumDirs

(***************************************************************************)
(* Values.  JavaScript values are represented by strings: "null" and       *)
(* "undefined" are the two nullish values, "true" is the boolean true,     *)
(* "a" and "A" are two strings a view element can hold.                    *)
(***************************************************************************)
ViewVals == {"a", "A"}
ModelVals == {"a"}
Val == {"null", "undefined", "true", "a", "A"}
Hooks == {"change", "blur", "submit"}
Transformers == {"none", "upper"}

\* BindTransformerFn: a function from a value to a value.  "upper" is
\* (v) => typeof v === 'string' ? v.toUpperCase() : v on the values above.
BindTransformerFn(t, v) == IF t = "upper" /\ v = "a" THEN "A" ELSE v

\* Function.prototype.apply(thisArg, args): args is read as an array-like,
\* so the callee's first argument is args[0], which is undefined when args
\* has no element 0.  fn.apply(undefined, [x]) calls fn(x).
ApplyArray(t, x) == BindTransformerFn(t, x)
\* fn.apply(undefined, control): a BindFormControl has no length and no
\* property "0", so the callee is called with no argument at all.
ApplyControl(t, c) == BindTransformerFn(t, "undefined")

(***************************************************************************)
(* The call log of the handler that ran last: the handler (op), the        *)
(* directive, control and value it ran with, the calls it made, in order,  *)
(* and, for the two handlers that read the pending buffers (blur, submit), *)
(* the pending buffer of every control when the handler started (pre).     *)
(* setUp lists the calls of setUpControl as <<directive, control, whether   *)
(* the control was disabled>>, setDisabledState the calls of the accessors' *)
(* setDisabledState as <<directive, isDisabled>>, reset the calls of         *)
(* form.reset with their argument, ngSubmit what each listener of ngSubmit *)
(* is called with and finds, returns what the handler returns, addControl  *)
(* the directives formDirective.addControl is called with, throws the      *)
(* error the handler throws.                                               *)
(***************************************************************************)
Pending(c) == [change |-> ctl[c].pendingChange, value |-> ctl[c].pendingValue]

NoLog == [op |-> "none", dir |-> 0, ctl |-> 0, arg |-> "null",
          pre |-> [c \in Controls |-> [change |-> FALSE, value |-> "null"]],
          setValue |-> <<>>, vtm |-> <<>>, write |-> <<>>,
          dirty |-> <<>>, touched |-> <<>>,
          setUp |-> <<>>, setDisabledState |-> <<>>,
          reset |-> <<>>, ngSubmit |-> <<>>, returns |-> "undefined",
          addControl |-> <<>>, throws |-> "none"]

Begin(op, d, c, v) ==
    [NoLog EXCEPT !.op = op, !.dir = d, !.ctl = c, !.arg = v,
                  !.pre = IF op \in {"blur", "submit"}
                          THEN [k \in Controls |-> Pending(k)]
                          ELSE NoLog.pre]

\* A world is the part of the state the handlers change.
World(op, d, c, v) ==
    [ctl |-> ctl, viewModel |-> viewModel, submitted |-> submitted, log |-> Begin(op, d, c, v)]

(***************************************************************************)
(* Directive and control methods.                                          *)
(***************************************************************************)
RECURSIVE FoldDirs(_, _, _, _, _)

\* NgBindModel / BindFormControlName / BindFormControlDirective
viewToModelUpdate(w, d, newValue) ==
    [w EXCEPT !.viewModel[d] = newValue,
              !.log.vtm = Append(@, <<d, newValue>>)]

\* ControlBindValueAccessor.writeValue on the accessor of directive d
writeValue(w, d, v) == [w EXCEPT !.log.write = Append(@, <<d, v>>)]

markAsDirty(w, c) ==
    [w EXCEPT !.ctl[c].dirty = TRUE, !.log.dirty = Append(@, c)]

markAsTouched(w, c) ==
    [w EXCEPT !.ctl[c].touched = TRUE, !.log.touched = Append(@, c)]

\* The callback setUpModelChangePipeline registers on the control.
onModelChange(w, c, d, newValue, emitModelEvent) ==
    LET transformedValue == IF transformer[c] # "none"
                            THEN ApplyControl(transformer[c], c)
                            ELSE newValue
        w1 == writeValue(w, d, transformedValue)
    IN IF emitModelEvent THEN viewToModelUpdate(w1, d, transformedValue) ELSE w1

\* this._onChange.forEach(changeFn => changeFn(this.value, emitViewToModelChange))
FoldDirs(w, ds, c, v, e) ==
    IF ds = <<>> THEN w
    ELSE FoldDirs(onModelChange(w, c, Head(ds), v, e), Tail(ds), c, v, e)

\* BindFormControl.setValue(value, options)
setValue(w, c, value, emitModelToViewChange, emitViewToModelChange) ==
    LET w1 == [w EXCEPT !.ctl[c].value = value,
                        !.ctl[c].pendingValue = value,
                        !.log.setValue = Append(@, <<c, value, emitModelToViewChange>>)]
    IN IF emitModelToViewChange
       THEN FoldDirs(w1, w1.ctl[c].onChange, c, value, emitViewToModelChange)
       ELSE w1

\* updateControl without the markAsDirty call
updateControlNoDirty(w, c, d) ==
    LET w2 == IF transformer[c] # "none"
              THEN [w EXCEPT !.ctl[c].pendingValue =
                       ApplyArray(transformer[c],
                                  IF w.ctl[c].pendingChange THEN "true" ELSE "false")]
              ELSE w
        w3 == setValue(w2, c, w2.ctl[c].pendingValue, FALSE, TRUE)
        w4 == viewToModelUpdate(w3, d, w3.ctl[c].pendingValue)
    IN [w4 EXCEPT !.ctl[c].pendingChange = FALSE]

updateControl(w, c, d) ==
    LET w1 == IF w.ctl[c].pendingDirty THEN markAsDirty(w, c) ELSE w
        w2 == IF transformer[c] # "none"
              THEN [w1 EXCEPT !.ctl[c].pendingValue =
                       ApplyArray(transformer[c],
                                  IF w1.ctl[c].pendingChange THEN "true" ELSE "false")]
              ELSE w1
        w3 == setValue(w2, c, w2.ctl[c].pendingValue, FALSE, TRUE)
        w4 == viewToModelUpdate(w3, d, w3.ctl[c].pendingValue)
    IN [w4 EXCEPT !.ctl[c].pendingChange = FALSE]

\* The callback setUpViewChangePipeline registers on the value accessor.
onViewChange(w, c, d, newValue) ==
    LET transformedValue == IF transformer[c] # "none"
                            THEN ApplyArray(transformer[c], newValue)
                            ELSE newValue
        w1 == IF transformer[c] # "none" /\ transformedValue # newValue
              THEN writeValue(w, d, transformedValue)
              ELSE w
        w2 == [w1 EXCEPT !.ctl[c].pendingValue = transformedValue,
                         !.ctl[c].pendingChange = TRUE,
                         !.ctl[c].pendingDirty = TRUE]
    IN IF updateOn[c] = "change" THEN updateControl(w2, c, d) ELSE w2

\* The callback setUpBlurPipeline registers on the value accessor.
onTouched(w, c, d) ==
    LET w1 == [w EXCEPT !.ctl[c].pendingTouched = TRUE]
        w2 == IF updateOn[c] = "blur" /\ w1.ctl[c].pendingChange
              THEN updateControl(w1, c, d)
              ELSE w1
    IN IF updateOn[c] # "submit" THEN markAsTouched(w2, c) ELSE w2

\* control.validator and control.asyncValidator are kept as the list of the
\* directives whose validators have been composed into them, in order.
setUpControl(w, c, d) ==
    LET w1 == [w EXCEPT !.ctl[c].validator = Append(@, d),
                        !.ctl[c].asyncValidator = Append(@, d),
                        !.log.setUp = Append(@, <<d, c, w.ctl[c].disabled>>)]
        w2 == writeValue(w1, d, w1.ctl[c].value)
        w3 == [w2 EXCEPT !.ctl[c].onChange = Append(@, d)]
    IN IF hasSetDisabledState[d]
       THEN [w3 EXCEPT !.ctl[c].onDisabledChange = Append(@, d)]
       ELSE w3

\* BindFormControl._syncPendingControls, for every control of the form group
RECURSIVE form_syncPendingControls(_, _)
form_syncPendingControls(w, c) ==
    IF c > NumControls THEN w
    ELSE IF updateOn[c] # "submit" THEN form_syncPendingControls(w, c + 1)
    ELSE LET w1 == IF w.ctl[c].pendingDirty THEN markAsDirty(w, c) ELSE w
             w2 == IF w1.ctl[c].pendingTouched THEN markAsTouched(w1, c) ELSE w1
             w3 == IF w2.ctl[c].pendingChange
                   THEN setValue(w2, c, w2.ctl[c].pendingValue, FALSE, TRUE)
                   ELSE w2
         IN form_syncPendingControls(w3, c + 1)

\* the forEach body without the reset of _pendingChange
syncDirectiveKeepsPending(w, d) ==
    LET c == dirCtl[d]
    IN IF updateOn[c] = "submit" /\ w.ctl[c].pendingChange
       THEN viewToModelUpdate(w, d, w.ctl[c].pendingValue)
       ELSE w

\* the body of directives.forEach in syncPendingControls
syncDirective(w, d) ==
    LET c == dirCtl[d]
    IN IF updateOn[c] = "submit" /\ w.ctl[c].pendingChange
       THEN [viewToModelUpdate(w, d, w.ctl[c].pendingValue)
                EXCEPT !.ctl[c].pendingChange = FALSE]
       ELSE w

RECURSIVE syncDirectives(_, _)
syncDirectives(w, ds) ==
    IF ds = <<>> THEN w ELSE syncDirectives(syncDirective(w, Head(ds)), Tail(ds))

syncPendingControls(w, ds) == syncDirectives(form_syncPendingControls(w, 1), ds)

(***************************************************************************)
(* Submit and reset of the form directives NgBindFormDirective and         *)
(* BindFormGroupDirective, whose handlers are the same code.               *)
(***************************************************************************)
Events == {"e1", "e2"}

\* the registered directives of ds that still hold a pending change
PendingDirectives(w, ds) ==
    {ds[i] : i \in {j \in DOMAIN ds : /\ updateOn[dirCtl[ds[j]]] = "submit"
                                      /\ w.ctl[dirCtl[ds[j]]].pendingChange}}

\* this.ngSubmit.emit(event): each listener is called with the event and
\* finds the form directive as it is at that moment
emit(w, ds, event) ==
    [w EXCEPT !.log.ngSubmit = Append(@, [event |-> event,
                                          submitted |-> w.submitted,
                                          pending |-> PendingDirectives(w, ds)])]

\* onSubmit emitting ngSubmit before it synchronises the pending controls
form_onSubmitEmitsFirst(w, ds, event) ==
    LET w1 == [w EXCEPT !.submitted = TRUE]
        w2 == emit(w1, ds, event)
        w3 == syncPendingControls(w2, ds)
    IN [w3 EXCEPT !.log.returns = "false"]

\* the body of onSubmit on the form whose directives are ds
form_onSubmit(w, ds, event) ==
    LET w1 == [w EXCEPT !.submitted = TRUE]
        w2 == syncPendingControls(w1, ds)
        w3 == emit(w2, ds, event)
    IN [w3 EXCEPT !.log.returns = "false"]

\* BindFormControl.reset(): the value becomes null, the control pristine and
\* untouched, the value is written to the views, _pendingChange is cleared
control_reset(w, c) ==
    LET w1 == [w EXCEPT !.ctl[c].dirty = FALSE, !.ctl[c].pendingDirty = FALSE,
                        !.ctl[c].touched = FALSE, !.ctl[c].pendingTouched = FALSE]
        w2 == setValue(w1, c, "null", TRUE, TRUE)
    IN [w2 EXCEPT !.ctl[c].pendingChange = FALSE]

RECURSIVE form_reset(_, _)
\* BindFormGroup.reset(): every control of the group, in order
form_reset(w, c) ==
    IF c > NumControls THEN w ELSE form_reset(control_reset(w, c), c + 1)

\* resetForm that leaves submitted alone
form_resetFormKeepsSubmitted(w, value) ==
    form_reset([w EXCEPT !.log.reset = Append(@, value)], 1)

\* the body of resetForm(value)
form_resetForm(w, value) ==
    LET w1 == form_reset([w EXCEPT !.log.reset = Append(@, value)], 1)
    IN [w1 EXCEPT !.submitted = FALSE]

(***************************************************************************)
(* The reactive directives BindFormControlName and BindFormControlDirective *)
(* and their deprecated ngBindModel input.                                 *)
(***************************************************************************)
ReactiveClasses == {"BindFormControlName", "BindFormControlDirective"}
WarningConfigs == {"null", "once", "always", "never"}
ModelInputs == {"a", "A"}

\* ControlBindValueAccessor.setDisabledState on the accessor of directive d
setDisabledState(w, d, isDisabled) ==
    [w EXCEPT !.log.setDisabledState = Append(@, <<d, isDisabled>>)]

\* setUpControl followed by the check both reactive directives make:
\* if (this.control.disabled && this.valueAccessor.setDisabledState)
\*     this.valueAccessor.setDisabledState(true)
_setUpControl(w, c, d) ==
    LET w1 == setUpControl(w, c, d)
    IN IF w1.ctl[c].disabled /\ hasSetDisabledState[d]
       THEN setDisabledState(w1, d, TRUE)
       ELSE w1

RECURSIVE FoldDisabled(_, _, _)
\* this._onDisabledChange.forEach(changeFn => changeFn(isDisabled))
FoldDisabled(w, ds, isDisabled) ==
    IF ds = <<>> THEN w
    ELSE FoldDisabled(setDisabledState(w, Head(ds), isDisabled), Tail(ds), isDisabled)

\* AbstractBindControl.disable() / enable()
setDisabled(w, c, isDisabled) ==
    FoldDisabled([w EXCEPT !.ctl[c].disabled = isDisabled],
                 w.ctl[c].onDisabledChange, isDisabled)

isPropertyUpdated(d, modelChanged, currentValue) ==
    /\ modelChanged
    /\ firstChange[d] \/ viewModel[d] # currentValue

\* _ngModelWarning that leaves type._ngModelWarningSentOnce alone
_ngModelWarningKeepsOnce(d) ==
    LET warningConfig == _ngModelWarningConfig[d]
        warn == /\ devMode /\ warningConfig # "never"
                /\ \/ warningConfig \in {"null", "once"} /\ ~_ngModelWarningSentOnce[cls[d]]
                   \/ warningConfig = "always" /\ ~_ngModelWarningSent[d]
    IN [warn |-> warn,
        sentOnce |-> _ngModelWarningSentOnce,
        sent |-> IF warn THEN [_ngModelWarningSent EXCEPT ![d] = TRUE]
                 ELSE _ngModelWarningSent]

\* _ngModelWarning that leaves instance._ngModelWarningSent alone
_ngModelWarningKeepsSent(d) ==
    LET warningConfig == _ngModelWarningConfig[d]
        warn == /\ devMode /\ warningConfig # "never"
                /\ \/ warningConfig \in {"null", "once"} /\ ~_ngModelWarningSentOnce[cls[d]]
                   \/ warningConfig = "always" /\ ~_ngModelWarningSent[d]
    IN [warn |-> warn,
        sentOnce |-> IF warn THEN [_ngModelWarningSentOnce EXCEPT ![cls[d]] = TRUE]
                     ELSE _ngModelWarningSentOnce,
        sent |-> _ngModelWarningSent]

\* _ngModelWarning(name, type, instance, warningConfig) for instance d of
\* type cls[d]: whether ReactiveBindErrors.ngModelWarning is called and the
\* two flags afterwards.
_ngModelWarning(d) ==
    LET warningConfig == _ngModelWarningConfig[d]
        warn == /\ devMode /\ warningConfig # "never"
                /\ \/ warningConfig \in {"null", "once"} /\ ~_ngModelWarningSentOnce[cls[d]]
                   \/ warningConfig = "always" /\ ~_ngModelWarningSent[d]
    IN [warn |-> warn,
        sentOnce |-> IF warn THEN [_ngModelWarningSentOnce EXCEPT ![cls[d]] = TRUE]
                     ELSE _ngModelWarningSentOnce,
        sent |-> IF warn THEN [_ngModelWarningSent EXCEPT ![d] = TRUE]
                 ELSE _ngModelWarningSent]

NoWarning ==
    /\ _ngModelWarningSentOnce = [k \in ReactiveClasses |-> FALSE]
    /\ _ngModelWarningSent = [d \in Dirs |-> FALSE]
    /\ firstChange = [d \in Dirs |-> TRUE]
    /\ warnings = [d \in Dirs |-> 0]

ReactiveIdle ==
    /\ cls = [d \in Dirs |-> "BindFormControlName"]
    /\ hasSetDisabledState = [d \in Dirs |-> TRUE]
    /\ devMode = FALSE
    /\ _ngModelWarningConfig = [d \in Dirs |-> "never"]
    /\ NoWarning

\* ngModelOptions left unbound
NoOptions == [defined |-> FALSE, name |-> "undefined", standalone |-> FALSE,
              updateOn |-> "undefined"]

NgModelIdle ==
    /\ _parent = [d \in Controls |-> "null"]
    /\ nameAttribute = [d \in Controls |-> "undefined"]
    /\ name = [d \in Controls |-> "undefined"]
    /\ options = [d \in Controls |-> NoOptions]
    /\ _registered = [d \in Controls |-> FALSE]
    /\ microtasks = <<>>

\* The event an accessor handled last; at first none.
\* composition is the composition event handled last, buffered whether an
\* input event since then was kept from onChange, written the value that
\* writeValue was called with if nothing has changed the element since,
\* onChange the values the handler has called the registered callback with.
NoEvent == [op |-> "none", arg |-> [kind |-> "undefined", items |-> <<>>, num |-> 0],
            composition |-> "none", buffered |-> FALSE,
            written |-> [kind |-> "none", items |-> <<>>, num |-> 0],
            onChange |-> <<>>]

AccessorIdle ==
    /\ element = [kind |-> "string", items |-> <<>>, num |-> 0]
    /\ _compositionMode = FALSE
    /\ _composing = FALSE
    /\ domEvent = NoEvent

DirectivesIdle == ReactiveIdle /\ NgModelIdle /\ AccessorIdle

(***************************************************************************)
(* Validation results.  A ValidationBindErrors map is a function from a    *)
(* set of keys to values; a validator returns such a map or null.          *)
(***************************************************************************)
MaxValidators == 3

Keys == {"k1", "k2"}
ErrVals == {"x", "y"}
EmptyMap == [k \in {} |-> "x"]
ErrorMaps == UNION {[D -> ErrVals] : D \in SUBSET Keys}
Null == [null |-> TRUE, map |-> EmptyMap]
Errors(m) == [null |-> FALSE, map |-> m]
Results == {Null} \cup {Errors(m) : m \in ErrorMaps}

\* An entry of a validator list: null/undefined (absent), or a validator,
\* which is represented by what it returns for the control at hand.
Absent == [present |-> FALSE, returns |-> Null]
ValidatorFn(r) == [present |-> TRUE, returns |-> r]
ValidatorEntries == {Absent} \cup {ValidatorFn(r) : r \in Results}

isPresent(o) == o.present

_executeValidators(vs) == [i \in DOMAIN vs |-> vs[i].returns]

\* { ...errors, ...res }: the earlier validator wins
SpreadFirstWins(res, e) ==
    [k \in DOMAIN res \cup DOMAIN e |-> IF k \in DOMAIN res THEN res[k] ELSE e[k]]

\* { ...res, ...errors }
Spread(res, e) ==
    [k \in DOMAIN res \cup DOMAIN e |-> IF k \in DOMAIN e THEN e[k] ELSE res[k]]

RECURSIVE MergeFrom(_, _)
MergeFrom(res, arrayOfErrors) ==
    IF arrayOfErrors = <<>> THEN res
    ELSE LET e == Head(arrayOfErrors)
         IN MergeFrom(IF ~e.null THEN Spread(res, e.map) ELSE res, Tail(arrayOfErrors))

_mergeErrors(arrayOfErrors) ==
    LET res == MergeFrom(EmptyMap, arrayOfErrors)
    IN IF DOMAIN res = {} THEN Null ELSE Errors(res)

\* BindValidators.compose(vs) applied to the control: isFn tells whether
\* compose returned a function, result is what that function returns.
NotComposed == [ran |-> FALSE, isFn |-> FALSE, result |-> Null]
compose(vs) ==
    LET presentValidators == SelectSeq(vs, isPresent)
    IN IF Len(presentValidators) = 0
       THEN [ran |-> TRUE, isFn |-> FALSE, result |-> Null]
       ELSE [ran |-> TRUE, isFn |-> TRUE,
             result |-> _mergeErrors(_executeValidators(presentValidators))]

BoundedSeq(S, n) == UNION {[1..k -> S] : k \in 0..n}

ComposeIdle == validators = <<>> /\ composed = NotComposed
(***************************************************************************)
(* BindValidators.composeAsync.  An async validator returns a promise or   *)
(* an observable; toObservable turns a promise into the observable that    *)
(* emits its value and completes.  A constituent is pending until it       *)
(* completes or fails, and remembers the last value it emitted.            *)
(***************************************************************************)
MaxAsyncValidators == 3

AsyncResults == {Null} \cup {Errors(m) : m \in {e \in ErrorMaps : Cardinality(DOMAIN e) = 1}}

PresentIndexes(vs) == {i \in DOMAIN vs : vs[i]}
RECURSIVE IndexSeq(_, _)
\* the indexes of the entries of vs that are present, in list order, from i on
IndexSeq(vs, i) ==
    IF i > Len(vs) THEN <<>>
    ELSE IF vs[i] THEN <<i>> \o IndexSeq(vs, i + 1) ELSE IndexSeq(vs, i + 1)

\* validators.filter(isPresent), then each validator called on the control
_executeAsyncValidators(vs) ==
    LET present == IndexSeq(vs, 1)
    IN [n \in DOMAIN present |->
          [of |-> present[n], status |-> "pending", hasValue |-> FALSE, last |-> Null]]

NotSubscribed == [status |-> "idle", emitted |-> <<>>]

\* forkJoin's handler for a constituent completing, which emits as soon as
\* one constituent that has a value completes
forkJoinCompleteEager(o, output, n) ==
    IF o[n].hasValue
    THEN [status |-> "completed",
          emitted |-> Append(output.emitted, _mergeErrors([i \in DOMAIN o |-> o[i].last]))]
    ELSE [output EXCEPT !.status = "completed"]

\* forkJoin's handler for constituent n completing; o is the constituents
\* after the completion.  pipe(map(_mergeErrors)) maps the emitted array.
forkJoinComplete(o, output, n) ==
    LET completed == Cardinality({i \in DOMAIN o : o[i].status = "completed"})
        emitted == Cardinality({i \in DOMAIN o : o[i].hasValue})
    IN IF completed = Len(o) \/ ~o[n].hasValue
       THEN [status |-> "completed",
             emitted |-> IF emitted = Len(o)
                         THEN Append(output.emitted,
                                     _mergeErrors([i \in DOMAIN o |-> o[i].last]))
                         ELSE output.emitted]
       ELSE output

AsyncIdle == asyncValidators = <<>> /\ obs = <<>> /\ out = NotSubscribed
(***************************************************************************)
(* The built-in validators.  A JavaScript value is a record: kind, the     *)
(* characters of a string or the elements of an array (items), and the     *)
(* number of a number or the truth of a boolean (num).                     *)
(***************************************************************************)
MaxLen == 3

Chars == {"0", "1", "-", ".", "x"}
ArrayItems == {"1", "x"}
DigitSeq == <<"0", "1", "2", "3", "4", "5", "6", "7", "8", "9">>
Digits == {DigitSeq[i] : i \in DOMAIN DigitSeq}
DigitVal(ch) == (CHOOSE i \in DOMAIN DigitSeq : DigitSeq[i] = ch) - 1

JsNull == [kind |-> "null", items |-> <<>>, num |-> 0]
JsUndefined == [kind |-> "undefined", items |-> <<>>, num |-> 0]
JsString(cs) == [kind |-> "string", items |-> cs, num |-> 0]
JsArray(xs) == [kind |-> "array", items |-> xs, num |-> 0]
JsNumber(n) == [kind |-> "number", items |-> <<>>, num |-> n]
JsBoolean(b) == [kind |-> "boolean", items |-> <<>>, num |-> IF b THEN 1 ELSE 0]

JsVals ==
    {JsNull, JsUndefined, JsBoolean(TRUE), JsBoolean(FALSE)}
        \cup {JsNumber(n) : n \in {-1, 0, 1, 2, 10}}
        \cup {JsString(cs) : cs \in BoundedSeq(Chars, MaxLen)}
        \cup {JsArray(xs) : xs \in BoundedSeq(ArrayItems, MaxLen)}
MinMaxArgs == {0, 1, 2}
LengthArgs == 0..MaxLen

\* value.length: defined for strings and arrays only
HasLength(v) == v.kind \in {"string", "array"}
Length(v) == Len(v.items)

\* value ? a : b
Truthy(v) ==
    CASE v.kind \in {"null", "undefined"} -> FALSE
      [] v.kind = "string" -> v.items # <<>>
      [] v.kind \in {"number", "boolean"} -> v.num # 0
      [] v.kind = "array" -> TRUE

RECURSIVE NatToChars(_)
NatToChars(n) ==
    IF n < 10 THEN <<DigitSeq[n + 1]>>
    ELSE NatToChars(n \div 10) \o <<DigitSeq[(n % 10) + 1]>>

RECURSIVE Join(_)
\* Array.prototype.join(",") on an array of strings
Join(xs) ==
    IF xs = <<>> THEN <<>>
    ELSE IF Len(xs) = 1 THEN <<xs[1]>>
    ELSE <<xs[1], ",">> \o Join(Tail(xs))

\* ToString, as parseFloat applies it to its argument
JsToString(v) ==
    CASE v.kind = "string" -> v.items
      [] v.kind = "array" -> Join(v.items)
      [] v.kind = "number" ->
            IF v.num < 0 THEN <<"-">> \o NatToChars(-v.num) ELSE NatToChars(v.num)
      [] v.kind = "boolean" ->
            IF v.num = 1 THEN <<"t", "r", "u", "e">> ELSE <<"f", "a", "l", "s", "e">>
      [] v.kind = "null" -> <<"n", "u", "l", "l">>
      [] v.kind = "undefined" -> <<"u", "n", "d", "e", "f", "i", "n", "e", "d">>

RECURSIVE DigitRun(_, _)
\* the longest run of digits of cs that starts at position i
DigitRun(cs, i) ==
    IF i <= Len(cs) /\ cs[i] \in Digits THEN <<cs[i]>> \o DigitRun(cs, i + 1) ELSE <<>>

RECURSIVE DigitsToNat(_)
DigitsToNat(ds) ==
    IF ds = <<>> THEN 0
    ELSE 10 * DigitsToNat(SubSeq(ds, 1, Len(ds) - 1)) + DigitVal(ds[Len(ds)])

RECURSIVE Pow10(_)
Pow10(n) == IF n = 0 THEN 1 ELSE 10 * Pow10(n - 1)

NaN == [nan |-> TRUE, num |-> 0, den |-> 1]

\* parseFloat: the longest prefix that is a decimal literal (sign, digits,
\* fraction), as the rational num / den; NaN when there is none.
parseFloat(v) ==
    LET cs == JsToString(v)
        signed == cs # <<>> /\ cs[1] \in {"-", "+"}
        start == IF signed THEN 2 ELSE 1
        int == DigitRun(cs, start)
        dot == start + Len(int)
        frac == IF dot <= Len(cs) /\ cs[dot] = "." THEN DigitRun(cs, dot + 1) ELSE <<>>
        magnitude == DigitsToNat(int \o frac)
    IN IF int = <<>> /\ frac = <<>> THEN NaN
       ELSE [nan |-> FALSE,
             num |-> IF signed /\ cs[1] = "-" THEN -magnitude ELSE magnitude,
             den |-> Pow10(Len(frac))]

\* a validator's result: null (key "none") or the one entry of an error map
NoError == [key |-> "none", bound |-> 0, actual |-> JsNull]
Failure(k, b, a) == [key |-> k, bound |-> b, actual |-> a]

\* isEmptyInputValue that takes every falsy value for empty
isEmptyInputValueFalsy(value) == ~Truthy(value)

isEmptyInputValue(value) ==
    \/ value.kind \in {"null", "undefined"}
    \/ HasLength(value) /\ Length(value) = 0

required(c) == IF isEmptyInputValue(c) THEN Failure("required", 0, JsBoolean(TRUE)) ELSE NoError

\* min with value <= min
minInclusive(m, c) ==
    IF isEmptyInputValue(c) \/ isEmptyInputValue(JsNumber(m)) THEN NoError
    ELSE LET value == parseFloat(c)
         IN IF ~value.nan /\ value.num <= m * value.den
            THEN Failure("min", m, c) ELSE NoError

min(m, c) ==
    IF isEmptyInputValue(c) \/ isEmptyInputValue(JsNumber(m)) THEN NoError
    ELSE LET value == parseFloat(c)
         IN IF ~value.nan /\ value.num < m * value.den
            THEN Failure("min", m, c) ELSE NoError

max(m, c) ==
    IF isEmptyInputValue(c) \/ isEmptyInputValue(JsNumber(m)) THEN NoError
    ELSE LET value == parseFloat(c)
         IN IF ~value.nan /\ value.num > m * value.den
            THEN Failure("max", m, c) ELSE NoError

\* minLength with length <= minLength
minLengthInclusive(n, c) ==
    IF isEmptyInputValue(c) THEN NoError
    ELSE LET defined == ~Truthy(c) \/ HasLength(c)
             length == IF Truthy(c) /\ HasLength(c) THEN Length(c) ELSE 0
         IN IF defined /\ length <= n
            THEN Failure("minlength", n, JsNumber(length)) ELSE NoError

\* length is control.value.length, which is undefined for a truthy value
\* without a length (undefined < minLength is false), and 0 for a falsy value
minLength(n, c) ==
    IF isEmptyInputValue(c) THEN NoError
    ELSE LET defined == ~Truthy(c) \/ HasLength(c)
             length == IF Truthy(c) /\ HasLength(c) THEN Length(c) ELSE 0
         IN IF defined /\ length < n
            THEN Failure("minlength", n, JsNumber(length)) ELSE NoError

\* A pattern string: the two assertions and one literal character.
MaxPattern == 3
PatternChars == {"^", "$", "x"}
Patterns == BoundedSeq(PatternChars, MaxPattern)

RECURSIVE MatchAt(_, _, _, _)
\* the rest of the regular expression re, from atom i on, matches s at pos
MatchAt(re, i, s, pos) ==
    IF i > Len(re) THEN TRUE
    ELSE CASE re[i] = "^" -> pos = 1 /\ MatchAt(re, i + 1, s, pos)
           [] re[i] = "$" -> pos = Len(s) + 1 /\ MatchAt(re, i + 1, s, pos)
           [] OTHER -> /\ pos <= Len(s)
                       /\ s[pos] = re[i]
                       /\ MatchAt(re, i + 1, s, pos + 1)

\* new RegExp(re).test(value): a match starting anywhere in ToString(value)
RegExpTest(re, value) ==
    LET s == JsToString(value)
    IN \E pos \in 1..(Len(s) + 1) : MatchAt(re, 1, s, pos)

\* pattern without the '$' appended
patternNoEnd(p, c) ==
    IF p = <<>> THEN NoError
    ELSE LET regexStr == (IF p[1] # "^" THEN <<"^">> ELSE <<>>) \o p
         IN IF isEmptyInputValue(c) THEN NoError
            ELSE IF RegExpTest(regexStr, c) THEN NoError
            ELSE Failure("pattern", regexStr, c)

\* BindValidators.pattern(p) for a string p, applied to the control value
pattern(p, c) ==
    IF p = <<>> THEN NoError
    ELSE LET regexStr == (IF p[1] # "^" THEN <<"^">> ELSE <<>>) \o p
                            \o (IF p[Len(p)] # "$" THEN <<"$">> ELSE <<>>)
         IN IF isEmptyInputValue(c) THEN NoError
            ELSE IF RegExpTest(regexStr, c) THEN NoError
            ELSE Failure("pattern", regexStr, c)

NotValidated == [by |-> "none", arg |-> 0, result |-> NoError]
BuiltinIdle == control = JsNull /\ errors = NotValidated

(***************************************************************************)
(* The state machine.                                                      *)
(***************************************************************************)
InitControl == [value |-> "null", pendingValue |-> "null", pendingChange |-> FALSE,
                pendingDirty |-> FALSE, pendingTouched |-> FALSE,
                dirty |-> FALSE, touched |-> FALSE, onChange |-> <<>>,
                validator |-> <<>>, asyncValidator |-> <<>>,
                disabled |-> FALSE, onDisabledChange |-> <<>>]

\* Controls are interchangeable, so are directives: a form is drawn once per
\* renaming (controls in the order of their options, directives in the order
\* of their registration).
HookRank(h) == CASE h = "change" -> 0 [] h = "blur" -> 1 [] h = "submit" -> 2
OptionRank(h, t) == 2 * HookRank(h) + (IF t = "none" THEN 0 ELSE 1)

Init ==
    /\ ctl = [c \in Controls |-> InitControl]
    /\ updateOn \in [Controls -> Hooks]
    /\ transformer \in [Controls -> Transformers]
    /\ \A c1, c2 \in Controls :
          c1 < c2 => OptionRank(updateOn[c1], transformer[c1])
                       <= OptionRank(updateOn[c2], transformer[c2])
    /\ dirCtl = [d \in Dirs |-> 0]
    /\ viewModel = [d \in Dirs |-> "undefined"]
    /\ directives = <<>>
    /\ submitted = FALSE
    /\ formCall = "none"
    /\ last = NoLog
    /\ ComposeIdle /\ AsyncIdle /\ BuiltinIdle /\ DirectivesIdle

Commit(w) ==
    /\ ctl' = w.ctl
    /\ viewModel' = w.viewModel
    /\ submitted' = w.submitted
    /\ last' = w.log

\* BindFormGroupDirective.addControl / NgBindFormDirective.addControl
addControl(d, c) ==
    /\ dirCtl[d] = 0
    /\ d = Len(directives) + 1
    /\ dirCtl' = [dirCtl EXCEPT ![d] = c]
    /\ directives' = Append(directives, d)
    /\ Commit(setUpControl(World("addControl", d, c, "null"), c, d))
    /\ UNCHANGED <<updateOn, transformer, formCall, composeVars, asyncVars, builtinVars, directiveVars>>

\* the value accessor of directive d reports a new view value
ViewChange(d, v) ==
    /\ dirCtl[d] # 0
    /\ Commit(onViewChange(World("viewChange", d, dirCtl[d], v), dirCtl[d], d, v))
    /\ UNCHANGED <<updateOn, transformer, dirCtl, directives, formCall, composeVars, asyncVars, builtinVars, directiveVars>>

\* the value accessor of directive d reports a blur
Blur(d) ==
    /\ dirCtl[d] # 0
    /\ Commit(onTouched(World("blur", d, dirCtl[d], "null"), dirCtl[d], d))
    /\ UNCHANGED <<updateOn, transformer, dirCtl, directives, formCall, composeVars, asyncVars, builtinVars, directiveVars>>

\* the application sets the control's value: control.setValue(v, options)
ModelSetValue(c, v, emitViewToModelChange) ==
    /\ Commit(setValue(World(IF emitViewToModelChange THEN "modelChangeEmit" ELSE "modelChange",
                             0, c, v), c, v, TRUE, emitViewToModelChange))
    /\ UNCHANGED <<updateOn, transformer, dirCtl, directives, formCall, composeVars, asyncVars, builtinVars, directiveVars>>

\* BindFormGroupDirective.onSubmit / NgBindFormDirective.onSubmit
onSubmit(event) ==
    /\ Commit(form_onSubmit(World("submit", 0, 0, event), directives, event))
    /\ formCall' = "onSubmit"
    /\ UNCHANGED <<updateOn, transformer, dirCtl, directives, composeVars, asyncVars, builtinVars, directiveVars>>

Next ==
    \/ \E d \in Dirs, c \in Controls : addControl(d, c)
    \/ \E d \in Dirs, v \in ViewVals : ViewChange(d, v)
    \/ \E d \in Dirs : Blur(d)
    \* updateModel calls ctrl.setValue(value) with the default options
    \/ \E c \in Controls, v \in ModelVals : ModelSetValue(c, v, TRUE)
    \/ onSubmit("e1")

Spec == Init /\ [][Next]_vars

(***************************************************************************)
(* Properties of the pipeline.                                             *)
(***************************************************************************)
Registered == {directives[i] : i \in DOMAIN directives}
VtmCalls(d) == {i \in DOMAIN last.vtm : last.vtm[i][1] = d}
\* the directives registered before d on the control of d
EarlierOnControl(d) ==
    {directives[i] : i \in {j \in DOMAIN directives :
        /\ dirCtl[directives[j]] = dirCtl[d]
        /\ \E k \in DOMAIN directives : k > j /\ directives[k] = d}}
ViewEvent == last.op \in {"viewChange", "blur"}

\* C1: with updateOn 'change' and no transformer, a view change event with
\* value v marks the control dirty, sets its value to v by one setValue call
\* with emitModelToViewChange false, calls dir.viewToModelUpdate(v) and ends
\* with _pendingChange = false, all within the callback.
C1_ChangeCommitsAtOnce ==
    (last.op = "viewChange" /\ updateOn[last.ctl] = "change"
        /\ transformer[last.ctl] = "none")
    => /\ last.dirty = <<last.ctl>>
       /\ ctl[last.ctl].dirty
       /\ last.setValue = << <<last.ctl, last.arg, FALSE>> >>
       /\ ctl[last.ctl].value = last.arg
       /\ last.write = <<>>
       /\ last.vtm = << <<last.dir, last.arg>> >>
       /\ viewModel[last.dir] = last.arg
       /\ ~ctl[last.ctl].pendingChange

C1_Witness ==
    /\ last.op = "viewChange"
    /\ updateOn[last.ctl] = "change"
    /\ transformer[last.ctl] = "none"
    /\ last.arg = "a"
    /\ ctl[last.ctl].value = "a"

\* C2: with updateOn 'blur', a view change event only buffers (_pendingChange
\* and _pendingDirty become true) and calls no setValue; a blur with
\* _pendingChange true commits the buffered _pendingValue by exactly one
\* setValue call and clears _pendingChange; a blur with _pendingChange false
\* calls no setValue.
C2_BlurCommitsBuffered ==
    (ViewEvent /\ updateOn[last.ctl] = "blur")
    => /\ last.op = "viewChange"
          => /\ last.setValue = <<>>
             /\ ctl[last.ctl].pendingChange
             /\ ctl[last.ctl].pendingDirty
       /\ (last.op = "blur" /\ last.pre[last.ctl].change)
          => /\ last.setValue = << <<last.ctl, last.pre[last.ctl].value, FALSE>> >>
             /\ ~ctl[last.ctl].pendingChange
       /\ (last.op = "blur" /\ ~last.pre[last.ctl].change)
          => last.setValue = <<>>

C4_ChangeCommitsTransformed ==
    (last.op = "viewChange" /\ updateOn[last.ctl] = "change"
        /\ transformer[last.ctl] # "none")
    => LET tv == BindTransformerFn(transformer[last.ctl], last.arg)
       IN /\ last.setValue = << <<last.ctl, tv, FALSE>> >>
          /\ last.vtm = << <<last.dir, tv>> >>
          /\ ctl[last.ctl].value = tv

\* C5: when the control's change callback fires with newValue v, writeValue
\* of the bound accessor gets v without a transformer and t(v) with
\* transformer t.
C5_ModelChangeWritesTransformed ==
    (last.op \in {"modelChange", "modelChangeEmit"})
    => LET t == transformer[last.ctl]
           expected == IF t = "none" THEN last.arg ELSE BindTransformerFn(t, last.arg)
       IN /\ Len(last.write) = Len(ctl[last.ctl].onChange)
          /\ \A i \in DOMAIN last.write :
               last.write[i] = <<ctl[last.ctl].onChange[i], expected>>

(***************************************************************************)
(* BindValidators.compose on a list of validators.                         *)
(***************************************************************************)
InitCompose ==
    /\ validators \in BoundedSeq(ValidatorEntries, MaxValidators)
    /\ composed = NotComposed
    /\ ctl = [c \in Controls |-> InitControl]
    /\ updateOn = [c \in Controls |-> "change"]
    /\ transformer = [c \in Controls |-> "none"]
    /\ dirCtl = [d \in Dirs |-> 0]
    /\ viewModel = [d \in Dirs |-> "undefined"]
    /\ directives = <<>>
    /\ submitted = FALSE
    /\ formCall = "none"
    /\ last = NoLog
    /\ AsyncIdle /\ BuiltinIdle /\ DirectivesIdle

\* the composed validator runs on the control
RunCompose ==
    /\ composed' = compose(validators)
    /\ UNCHANGED <<validators, formVars, asyncVars, builtinVars, directiveVars>>

NextCompose == RunCompose

SpecCompose == InitCompose /\ [][NextCompose]_vars

Present == {i \in DOMAIN validators : validators[i].present}
Returned(i) == validators[i].returns
HasKey(i, k) == i \in Present /\ ~Returned(i).null /\ k \in DOMAIN Returned(i).map

\* C6: for a list with at least one non-null validator, the composed
\* validator returns null iff every non-null validator returns null or an
\* empty map; otherwise a map whose keys are the union of the keys of the
\* returned maps, each key with the value of the last validator returning it.
C6_ComposeMergesLastWins ==
    (composed.ran /\ Present # {})
    => /\ composed.isFn
       /\ composed.result.null
            <=> \A i \in Present : Returned(i).null \/ DOMAIN Returned(i).map = {}
       /\ ~composed.result.null
            => /\ DOMAIN composed.result.map =
                    UNION {DOMAIN Returned(i).map : i \in {j \in Present : ~Returned(j).null}}
               /\ \A k \in DOMAIN composed.result.map :
                    \E i \in Present :
                        /\ HasKey(i, k)
                        /\ \A j \in Present : HasKey(j, k) => j <= i
                        /\ composed.result.map[k] = Returned(i).map[k]

C6_Witness ==
    /\ composed.ran
    /\ ~composed.result.null
    /\ \E i, j \in Present :
         /\ i < j
         /\ HasKey(i, "k1") /\ HasKey(j, "k1")
         /\ Returned(i).map["k1"] # Returned(j).map["k1"]
         /\ composed.result.map["k1"] = Returned(j).map["k1"]
    /\ \E i \in DOMAIN validators : ~validators[i].present

(***************************************************************************)
(* BindValidators.composeAsync on a list of async validators.              *)
(***************************************************************************)
InitAsync ==
    /\ asyncValidators \in BoundedSeq(BOOLEAN, MaxAsyncValidators)
    /\ obs = <<>>
    /\ out = NotSubscribed
    /\ ctl = [c \in Controls |-> InitControl]
    /\ updateOn = [c \in Controls |-> "change"]
    /\ transformer = [c \in Controls |-> "none"]
    /\ dirCtl = [d \in Dirs |-> 0]
    /\ viewModel = [d \in Dirs |-> "undefined"]
    /\ directives = <<>>
    /\ submitted = FALSE
    /\ formCall = "none"
    /\ last = NoLog
    /\ ComposeIdle /\ BuiltinIdle /\ DirectivesIdle

\* the composed async validator is called on the control and subscribed to
composeAsync ==
    /\ out.status = "idle"
    /\ IF PresentIndexes(asyncValidators) = {}
       THEN /\ out' = [out EXCEPT !.status = "noFn"]
            /\ obs' = obs
       ELSE /\ obs' = _executeAsyncValidators(asyncValidators)
            /\ out' = [out EXCEPT !.status = "subscribed"]
    /\ UNCHANGED <<asyncValidators, formVars, composeVars, builtinVars, directiveVars>>

\* constituent n emits r
ObsNext(n, r) ==
    /\ out.status = "subscribed"
    /\ obs[n].status = "pending"
    /\ obs' = [obs EXCEPT ![n].hasValue = TRUE, ![n].last = r]
    /\ UNCHANGED <<asyncValidators, out, formVars, composeVars, builtinVars, directiveVars>>

\* constituent n completes
ObsComplete(n) ==
    /\ out.status = "subscribed"
    /\ obs[n].status = "pending"
    /\ obs' = [obs EXCEPT ![n].status = "completed"]
    /\ out' = forkJoinComplete(obs', out, n)
    /\ UNCHANGED <<asyncValidators, formVars, composeVars, builtinVars, directiveVars>>

\* constituent n fails (a rejected promise, an observable error)
ObsError(n) ==
    /\ out.status = "subscribed"
    /\ obs[n].status = "pending"
    /\ obs' = [obs EXCEPT ![n].status = "failed"]
    /\ out' = [out EXCEPT !.status = "failed"]
    /\ UNCHANGED <<asyncValidators, formVars, composeVars, builtinVars, directiveVars>>

NextAsync ==
    \/ composeAsync
    \/ \E n \in DOMAIN obs, r \in AsyncResults : ObsNext(n, r)
    \/ \E n \in DOMAIN obs : ObsComplete(n)
    \/ \E n \in DOMAIN obs : ObsError(n)

SpecAsync == InitAsync /\ [][NextAsync]_vars

AllInvoked ==
    /\ Len(obs) = Cardinality(PresentIndexes(asyncValidators))
    /\ {obs[n].of : n \in DOMAIN obs} = PresentIndexes(asyncValidators)
AllCompleted == \A n \in DOMAIN obs : obs[n].status = "completed"
SomePending == \E n \in DOMAIN obs : obs[n].status = "pending"
\* the union of the error maps last emitted, a later validator's value
\* taking a key it shares with an earlier one; null if there is no key
MergedLast ==
    LET keys == UNION {DOMAIN obs[n].last.map : n \in DOMAIN obs}
        LastWith(k) == CHOOSE n \in DOMAIN obs :
                          /\ k \in DOMAIN obs[n].last.map
                          /\ \A m \in DOMAIN obs : k \in DOMAIN obs[m].last.map => m <= n
    IN IF keys = {} THEN Null
       ELSE Errors([k \in keys |-> obs[LastWith(k)].last.map[k]])

\* C7 (as stated): the composed async validator calls every non-null
\* validator, emits nothing while a constituent is pending, and has emitted
\* exactly one merged result once every constituent has completed.
C7_EmitsOnceAllCompleted ==
    (out.status \in {"subscribed", "completed", "failed"})
    => /\ AllInvoked
       /\ SomePending => out.emitted = <<>>
       /\ AllCompleted => out.emitted = <<MergedLast>>

\* C7 (amended): it calls every non-null validator, emits nothing while a
\* constituent is pending, never emits twice, and once every constituent
\* has completed it has emitted exactly one merged result if every
\* constituent emitted a value, and nothing if one completed without a value.
C7_EmitsOnceAllCompletedWithValue ==
    (out.status \in {"subscribed", "completed", "failed"})
    => /\ AllInvoked
       /\ SomePending => out.emitted = <<>>
       /\ Len(out.emitted) <= 1
       /\ AllCompleted =>
            IF \A n \in DOMAIN obs : obs[n].hasValue
            THEN out.emitted = <<MergedLast>>
            ELSE out.emitted = <<>>

C7_Witness ==
    /\ Len(obs) >= 2
    /\ \E i \in DOMAIN asyncValidators : ~asyncValidators[i]
    /\ AllCompleted
    /\ Len(out.emitted) = 1
    /\ ~out.emitted[1].null
    /\ Cardinality(DOMAIN out.emitted[1].map) = 2

(***************************************************************************)
(* The built-in validators on a control value.                             *)
(***************************************************************************)
InitBuiltin ==
    /\ control \in JsVals
    /\ errors = NotValidated
    /\ ctl = [c \in Controls |-> InitControl]
    /\ updateOn = [c \in Controls |-> "change"]
    /\ transformer = [c \in Controls |-> "none"]
    /\ dirCtl = [d \in Dirs |-> 0]
    /\ viewModel = [d \in Dirs |-> "undefined"]
    /\ directives = <<>>
    /\ submitted = FALSE
    /\ formCall = "none"
    /\ last = NoLog
    /\ ComposeIdle /\ AsyncIdle /\ DirectivesIdle

Validated(by, arg, result) ==
    /\ errors' = [by |-> by, arg |-> arg, result |-> result]
    /\ UNCHANGED <<control, formVars, composeVars, asyncVars, directiveVars>>

ValidateRequired == Validated("required", 0, required(control))
ValidateMin(m) == Validated("min", m, min(m, control))
ValidateMax(m) == Validated("max", m, max(m, control))
ValidateMinLength(n) == Validated("minLength", n, minLength(n, control))

NextBuiltin ==
    \/ ValidateRequired
    \/ \E m \in MinMaxArgs : ValidateMin(m)
    \/ \E m \in MinMaxArgs : ValidateMax(m)
    \/ \E n \in LengthArgs : ValidateMinLength(n)

SpecBuiltin == InitBuiltin /\ [][NextBuiltin]_vars

EmptyValue == control.kind \in {"null", "undefined"} \/ (HasLength(control) /\ Length(control) = 0)

\* C8 (as stated): minLength(n) returns null iff the length of the value is
\* at least n, and {minlength: {requiredLength: n, actualLength: length}}
\* otherwise, for every value that has a length.
C8_MinLengthEveryValue ==
    (errors.by = "minLength" /\ HasLength(control))
    => IF Length(control) >= errors.arg
       THEN errors.result = NoError
       ELSE errors.result = Failure("minlength", errors.arg, JsNumber(Length(control)))

\* C8 (amended): for a value of length 0, as for null and undefined,
\* minLength(n) returns null whatever n is; for every string or array of
\* length at least 1 it returns null iff the length is at least n, and
\* {minlength: {requiredLength: n, actualLength: length}} otherwise.
C8_MinLengthNonEmptyValue ==
    (errors.by = "minLength" /\ (HasLength(control) \/ EmptyValue))
    => IF EmptyValue \/ Length(control) >= errors.arg
       THEN errors.result = NoError
       ELSE errors.result = Failure("minlength", errors.arg, JsNumber(Length(control)))

C8_Witness ==
    /\ errors.by = "minLength"
    /\ control.kind = "string"
    /\ Length(control) = 2
    /\ errors.arg = 3
    /\ errors.result.key = "minlength"

\* C9: required returns {required: true} iff the value is null, undefined,
\* or has length 0, and null for every other value, 0 and false included.
C9_RequiredIffEmpty ==
    (errors.by = "required")
    => /\ errors.result \in {NoError, Failure("required", 0, JsBoolean(TRUE))}
       /\ errors.result # NoError <=> EmptyValue

C9_Witness ==
    /\ errors.by = "required"
    /\ control \in {JsNumber(0), JsBoolean(FALSE)}
    /\ errors.result = NoError

\* C10: min(m) returns {min: {min: m, actual: value}} iff the value is not
\* empty, parses to a number and that number is less than m, and null
\* otherwise; max(m) is the mirror image with greater than m.
C10_MinMaxStrict ==
    (errors.by \in {"min", "max"})
    => LET parsed == parseFloat(control)
           beyond == IF errors.by = "min"
                     THEN parsed.num < errors.arg * parsed.den
                     ELSE parsed.num > errors.arg * parsed.den
       IN IF ~EmptyValue /\ ~parsed.nan /\ beyond
          THEN errors.result = Failure(errors.by, errors.arg, control)
          ELSE errors.result = NoError

C10_Witness ==
    /\ errors.by = "min"
    /\ control = JsString(<<"1">>)
    /\ errors.arg = 1
    /\ errors.result = NoError

(***************************************************************************)
(* BindValidators.pattern with a string pattern, on a control value.       *)
(***************************************************************************)
ValidatePattern(p) == errors.by = "none" /\ Validated("pattern", p, pattern(p, control))

NextPattern == \E p \in Patterns : ValidatePattern(p)

SpecPattern == InitBuiltin /\ [][NextPattern]_vars

\* p with '^' in front unless it starts with one, '$' behind unless it ends with one
Anchored(p) ==
    (IF p[1] = "^" THEN <<>> ELSE <<"^">>) \o p \o (IF p[Len(p)] = "$" THEN <<>> ELSE <<"$">>)
LiteralOnly(p) == p # <<>> /\ \A i \in DOMAIN p : p[i] \notin {"^", "$"}

\* C11: pattern(p) for a string p returns null for the empty pattern and for
\* an empty value; otherwise it tests the value against p with '^' prepended
\* iff p does not start with '^' and '$' appended iff p does not end with '$'
\* (an anchored p is used unchanged), so that a pattern of literals passes
\* exactly the value equal to it, and reports the anchored string on failure.
C11_PatternAnchored ==
    (errors.by = "pattern")
    => LET p == errors.arg
       IN /\ (p = <<>> \/ EmptyValue) => errors.result = NoError
          /\ (p # <<>> /\ ~EmptyValue)
             => /\ errors.result = IF RegExpTest(Anchored(p), control)
                                   THEN NoError
                                   ELSE Failure("pattern", Anchored(p), control)
                /\ (p[1] = "^" /\ p[Len(p)] = "$") => Anchored(p) = p
                /\ Anchored(Anchored(p)) = Anchored(p)
                /\ LiteralOnly(p) => (errors.result = NoError <=> JsToString(control) = p)

C11_Witness ==
    /\ errors.by = "pattern"
    /\ errors.arg = <<"x">>
    /\ control = JsString(<<"x", "1">>)
    /\ errors.result = Failure("pattern", <<"^", "x", "$">>, control)

(***************************************************************************)
(* The reactive directives.  ngOnChanges is called with the inputs that    *)
(* changed: the control the directive is bound to (formChanged) and the    *)
(* ngBindModel input (modelChanged, with its new value).                   *)
(***************************************************************************)
Warned(d, result) ==
    /\ _ngModelWarningSentOnce' = result.sentOnce
    /\ _ngModelWarningSent' = result.sent
    /\ warnings' = IF result.warn THEN [warnings EXCEPT ![d] = @ + 1] ELSE warnings

NotWarned == UNCHANGED <<_ngModelWarningSentOnce, _ngModelWarningSent, warnings>>

\* BindFormControlName.ngOnChanges; c is the control of the parent form at
\* the directive's path
FormControlName_ngOnChanges(d, c, modelChanged, model) ==
    /\ cls[d] = "BindFormControlName"
    /\ dirCtl[d] \in {0, c}
    /\ dirCtl[d] = 0 \/ modelChanged
    /\ LET _added == dirCtl[d] # 0
           w0 == World("ngOnChanges", d, c, IF modelChanged THEN model ELSE "undefined")
           w1 == IF ~_added THEN _setUpControl(w0, c, d) ELSE w0
           updated == isPropertyUpdated(d, modelChanged, model)
           w2 == IF updated
                 THEN setValue([w1 EXCEPT !.viewModel[d] = model], c, model, TRUE, TRUE)
                 ELSE w1
       IN /\ Commit(w2)
          /\ dirCtl' = [dirCtl EXCEPT ![d] = c]
          /\ directives' = IF ~_added THEN Append(directives, d) ELSE directives
          /\ IF updated THEN Warned(d, _ngModelWarning(d)) ELSE NotWarned
    /\ firstChange' = IF modelChanged THEN [firstChange EXCEPT ![d] = FALSE] ELSE firstChange
    /\ UNCHANGED <<updateOn, transformer, formCall, cls, hasSetDisabledState, devMode,
                   _ngModelWarningConfig, composeVars, asyncVars, builtinVars,
                   ngModelVars, accessorVars>>

\* the directives that setUpControl has been called with on control c
SetUpOn(c) == {ctl[c].onChange[i] : i \in DOMAIN ctl[c].onChange}

\* BindFormControlDirective.ngOnChanges; c is the control of the form input.
\* The form input is never set back to a control it has held before.
FormControlDirective_ngOnChanges(d, c, formChanged, modelChanged, model) ==
    /\ cls[d] = "BindFormControlDirective"
    /\ IF formChanged THEN dirCtl[d] # c /\ d \notin SetUpOn(c) ELSE dirCtl[d] = c
    /\ formChanged \/ modelChanged
    /\ LET w0 == World("ngOnChanges", d, c, IF modelChanged THEN model ELSE "undefined")
           w1 == IF formChanged THEN _setUpControl(w0, c, d) ELSE w0
           updated == isPropertyUpdated(d, modelChanged, model)
           w2 == IF updated
                 THEN [setValue(w1, c, model, TRUE, TRUE) EXCEPT !.viewModel[d] = model]
                 ELSE w1
       IN /\ Commit(w2)
          /\ dirCtl' = [dirCtl EXCEPT ![d] = c]
          /\ IF updated THEN Warned(d, _ngModelWarning(d)) ELSE NotWarned
    /\ firstChange' = IF modelChanged THEN [firstChange EXCEPT ![d] = FALSE] ELSE firstChange
    /\ UNCHANGED <<updateOn, transformer, directives, formCall, cls, hasSetDisabledState,
                   devMode, _ngModelWarningConfig, composeVars, asyncVars, builtinVars,
                   ngModelVars, accessorVars>>

InitReactive ==
    /\ ctl \in [Controls -> {[InitControl EXCEPT !.disabled = b] : b \in BOOLEAN}]
    /\ updateOn = [c \in Controls |-> "change"]
    /\ transformer = [c \in Controls |-> "none"]
    /\ dirCtl = [d \in Dirs |-> 0]
    /\ viewModel = [d \in Dirs |-> "undefined"]
    /\ directives = <<>>
    /\ submitted = FALSE
    /\ formCall = "none"
    /\ last = NoLog
    /\ cls \in [Dirs -> ReactiveClasses]
    /\ NoWarning
    /\ ComposeIdle /\ AsyncIdle /\ BuiltinIdle /\ NgModelIdle /\ AccessorIdle

\* Directives are interchangeable: a set of instances is drawn once per
\* renaming, in the order of their classes.  Every instance is injected the
\* one warning config of the module (NG_MODEL_WITH_FORM_CONTROL_WARNING).
ClassRank(k) == IF k = "BindFormControlName" THEN 0 ELSE 1
\* isDevMode() and the warning config: every config in dev mode, and
\* production mode with the config that warns most
WarningModes == {<<TRUE, k>> : k \in WarningConfigs} \cup {<<FALSE, "always">>}
\* Controls are interchangeable as well: they are bound in index order.
NextControls == {c \in Controls : c = 1 \/ SetUpOn(c - 1) # {}}

InitWarning ==
    /\ InitReactive
    /\ \A c \in Controls : ~ctl[c].disabled
    /\ hasSetDisabledState = [d \in Dirs |-> TRUE]
    /\ \E mode \in WarningModes :
          /\ devMode = mode[1]
          /\ _ngModelWarningConfig = [d \in Dirs |-> mode[2]]
    /\ \A d1, d2 \in Dirs : d1 < d2 => ClassRank(cls[d1]) <= ClassRank(cls[d2])

NextWarning ==
    \/ \E d \in Dirs, c \in NextControls, m \in BOOLEAN, v \in ModelInputs :
          FormControlName_ngOnChanges(d, c, m, v)
    \/ \E d \in Dirs, c \in NextControls, m \in BOOLEAN, v \in ModelInputs :
          FormControlDirective_ngOnChanges(d, c, dirCtl[d] = 0, m, v)

SpecWarning == InitWarning /\ [][NextWarning]_vars

InstancesOf(k) == {d \in Dirs : cls[d] = k}
\* the instances that have received an ngBindModel input update
Updated == {d \in Dirs : ~firstChange[d]}

\* C12: in dev mode the instances of one reactive directive class whose
\* warning config is null or 'once' emit the ngBindModel deprecation warning
\* at most once in total, whatever the number of instances and of updates;
\* an instance with config 'never' never emits it.
C12_WarnsOncePerClass ==
    devMode
    => /\ \A k \in ReactiveClasses :
            LET once == {d \in InstancesOf(k) : _ngModelWarningConfig[d] \in {"null", "once"}}
            IN /\ \A d \in once : warnings[d] <= 1
               /\ Cardinality({d \in once : warnings[d] > 0}) <= 1
       /\ \A d \in Dirs : _ngModelWarningConfig[d] = "never" => warnings[d] = 0

C12_Witness ==
    /\ devMode
    /\ \E d1, d2 \in Updated :
         /\ d1 # d2
         /\ cls[d1] = cls[d2]
         /\ _ngModelWarningConfig[d1] \in {"null", "once"}
         /\ _ngModelWarningConfig[d2] \in {"null", "once"}
         /\ warnings[d1] = 1
         /\ warnings[d2] = 0

\* C13: in dev mode an instance with warning config 'always' has emitted the
\* warning exactly once as soon as it has received an ngBindModel input
\* update, and never before, whatever the other instances have done.
C13_WarnsOncePerInstance ==
    devMode
    => \A d \in Dirs :
          _ngModelWarningConfig[d] = "always"
          => warnings[d] = IF d \in Updated THEN 1 ELSE 0

C13_Witness ==
    /\ devMode
    /\ \E d1, d2 \in Updated :
         /\ d1 # d2
         /\ cls[d1] = cls[d2]
         /\ _ngModelWarningConfig[d1] = "always"
         /\ _ngModelWarningConfig[d2] = "always"
         /\ warnings[d1] = 1
         /\ warnings[d2] = 1
         /\ last.op = "ngOnChanges" /\ last.setUp = <<>>

(***************************************************************************)
(* The disabled state of a control and the accessors of the reactive       *)
(* directives bound to it.                                                 *)
(***************************************************************************)
RECURSIVE _updateDomValue(_, _, _)
\* BindFormGroupDirective._updateDomValue for the directives ds, when the
\* controls of the set S are new objects: dir.control !== newCtrl for the
\* directives bound to them.  cleanUpControl acts on the old control and on
\* the accessor's callbacks, which setUpControl registers anew.
_updateDomValue(w, ds, S) ==
    IF ds = <<>> THEN w
    ELSE LET dir == Head(ds)
         IN _updateDomValue(IF dirCtl[dir] \in S
                            THEN setUpControl(w, dirCtl[dir], dir)
                            ELSE w,
                            Tail(ds), S)

\* control.disable() by the application
Disable(c) ==
    /\ Commit(setDisabled(World("disable", 0, c, "null"), c, TRUE))
    /\ UNCHANGED <<updateOn, transformer, dirCtl, directives, formCall,
                   composeVars, asyncVars, builtinVars, directiveVars>>

\* control.enable() by the application
Enable(c) ==
    /\ Commit(setDisabled(World("enable", 0, c, "null"), c, FALSE))
    /\ UNCHANGED <<updateOn, transformer, dirCtl, directives, formCall,
                   composeVars, asyncVars, builtinVars, directiveVars>>

\* BindFormGroupDirective.ngOnChanges with a new form: the controls of S are
\* new BindFormControl objects, disabled or not as isDisabled says; the
\* others are shared by the old form and the new.  No BindFormControlDirective
\* holds a control that is replaced.
FormGroup_ngOnChanges(S, isDisabled) ==
    /\ S # {}
    /\ \A c \in Controls \ S : ~isDisabled[c]
    /\ \A d \in Dirs : dirCtl[d] \in S => cls[d] = "BindFormControlName"
    /\ LET w0 == World("formChange", 0, 0, "null")
           w1 == [w0 EXCEPT !.ctl = [c \in Controls |->
                                IF c \in S
                                THEN [InitControl EXCEPT !.disabled = isDisabled[c]]
                                ELSE w0.ctl[c]]]
       IN Commit(_updateDomValue(w1, directives, S))
    /\ UNCHANGED <<updateOn, transformer, dirCtl, directives, formCall,
                   composeVars, asyncVars, builtinVars, directiveVars>>

InitDisabled ==
    /\ InitReactive
    /\ hasSetDisabledState \in [Dirs -> BOOLEAN]
    /\ devMode = TRUE
    /\ _ngModelWarningConfig = [d \in Dirs |-> "never"]

NextDisabled ==
    \/ \E d \in Dirs, c \in Controls, m \in BOOLEAN, v \in ModelInputs :
          FormControlName_ngOnChanges(d, c, m, v)
    \/ \E d \in Dirs, c \in Controls, f \in BOOLEAN, m \in BOOLEAN, v \in ModelInputs :
          FormControlDirective_ngOnChanges(d, c, f, m, v)
    \/ \E c \in Controls : Disable(c)
    \/ \E c \in Controls : Enable(c)
    \/ \E S \in SUBSET Controls, b \in [Controls -> BOOLEAN] : FormGroup_ngOnChanges(S, b)

SpecDisabled == InitDisabled /\ [][NextDisabled]_vars

SetDisabledStateCalls(d) ==
    {last.setDisabledState[i][2] : i \in {j \in DOMAIN last.setDisabledState :
                                            last.setDisabledState[j][1] = d}}

\* C18: whenever a reactive directive whose accessor implements
\* setDisabledState is set up on a control that is disabled, the handler
\* that sets it up calls setDisabledState(true) on the accessor; and every
\* later change of the control's disabled state calls setDisabledState with
\* the new state on the accessor of every directive bound to the control.
C18_DisabledStateForwarded ==
    /\ \A i \in DOMAIN last.setUp :
          LET d == last.setUp[i][1]
              wasDisabled == last.setUp[i][3]
          IN (wasDisabled /\ hasSetDisabledState[d]) => TRUE \in SetDisabledStateCalls(d)
    /\ last.op \in {"disable", "enable"}
       => \A d \in Dirs :
             (dirCtl[d] = last.ctl /\ hasSetDisabledState[d])
             => SetDisabledStateCalls(d) = {last.op = "disable"}

(***************************************************************************)
(* Submit and reset of a form.                                             *)
(***************************************************************************)
\* resetForm(value); value is undefined when the argument is left out
resetForm(value) ==
    /\ Commit(form_resetForm(World("resetForm", 0, 0, value), value))
    /\ formCall' = "resetForm"
    /\ UNCHANGED <<updateOn, transformer, dirCtl, directives, composeVars, asyncVars,
                   builtinVars, directiveVars>>

\* onReset(), the handler of the form element's reset event
onReset ==
    /\ Commit(form_resetForm(World("onReset", 0, 0, "undefined"), "undefined"))
    /\ formCall' = "onReset"
    /\ UNCHANGED <<updateOn, transformer, dirCtl, directives, composeVars, asyncVars,
                   builtinVars, directiveVars>>

InitSubmit ==
    /\ ctl = [c \in Controls |-> InitControl]
    /\ updateOn \in [Controls -> Hooks]
    /\ \A c1, c2 \in Controls : c1 < c2 => HookRank(updateOn[c1]) <= HookRank(updateOn[c2])
    /\ transformer = [c \in Controls |-> "none"]
    /\ dirCtl = [d \in Dirs |-> 0]
    /\ viewModel = [d \in Dirs |-> "undefined"]
    /\ directives = <<>>
    /\ submitted = FALSE
    /\ formCall = "none"
    /\ last = NoLog
    /\ ComposeIdle /\ AsyncIdle /\ BuiltinIdle /\ DirectivesIdle

NextSubmit ==
    \/ \E d \in Dirs, c \in Controls : addControl(d, c)
    \* no control has a transformer here: one view value stands for all
    \/ \E d \in Dirs : ViewChange(d, "a")
    \/ \E d \in Dirs : Blur(d)
    \/ \E event \in Events : onSubmit(event)
    \/ onReset
    \/ resetForm("undefined")

SpecSubmit == InitSubmit /\ [][NextSubmit]_vars

\* C14: onSubmit emits ngSubmit exactly once, with the event it was called
\* with, after it has set submitted and synchronised the pending controls:
\* the listener finds submitted = true and no registered directive of a
\* control with updateOn 'submit' holding a pending change; onSubmit
\* returns false.
C14_SubmitSyncsBeforeEmit ==
    (last.op = "submit")
    => /\ submitted
       /\ last.returns = "false"
       /\ last.ngSubmit = <<[event |-> last.arg, submitted |-> TRUE, pending |-> {}]>>
       /\ \A d \in Registered :
             updateOn[dirCtl[d]] = "submit" => ~ctl[dirCtl[d]].pendingChange

C14_Witness ==
    /\ last.op = "submit"
    /\ last.arg = "e2"
    /\ \E d \in Registered :
          /\ updateOn[dirCtl[d]] = "submit"
          /\ last.pre[dirCtl[d]].change
          /\ VtmCalls(d) # {}
    /\ Len(last.ngSubmit) = 1

\* C15: submitted is false initially and is true iff the last call among
\* onSubmit, onReset and resetForm was onSubmit; resetForm and onReset call
\* form.reset once, which leaves every control reset, and leave submitted
\* false.
C15_SubmittedIffLastCallSubmit ==
    /\ submitted <=> formCall = "onSubmit"
    /\ last.op \in {"onReset", "resetForm"}
       => /\ last.reset = <<"undefined">>
          /\ ~submitted
          /\ \A c \in Controls :
                /\ ctl[c].value = "null"
                /\ ~ctl[c].pendingChange
                /\ ~ctl[c].dirty /\ ~ctl[c].touched

C15_Witness ==
    /\ last.op = "onReset"
    /\ formCall = "onReset"
    /\ ~submitted
    /\ \E d \in Registered : \E i \in DOMAIN last.write : last.write[i] = <<d, "null">>

(***************************************************************************)
(* NgBindModel.  Every NgBindModel creates its own BindFormControl, so the *)
(* directives of this part are numbered like the controls: directive d     *)
(* owns control d.  Its parent, name attribute and ngModelOptions are set  *)
(* by the template and stay as they are; ngOnChanges runs with the model   *)
(* input changed or not (the disabled input is not bound, so changes never *)
(* holds isDisabled).  Callbacks passed to resolvedPromise.then are        *)
(* queued in microtasks and run in order; change detection calls           *)
(* ngOnChanges of a directive again only after its microtasks have run.    *)
(***************************************************************************)
NgModels == Controls

\* what the constructor can be injected as parent (@Optional @Host)
ParentKinds == {"null", "NgBindFormDirective", "BindFormGroupName", "BindFormGroupDirective"}
\* the parents that are an AbstractBindFormGroupDirective
AbstractBindFormGroupDirectives == {"NgBindModelGroup", "BindFormGroupName"}
NameAttributes == {"undefined", "first"}
OptionsInputs ==
    {NoOptions}
        \cup {[defined |-> TRUE, name |-> n, standalone |-> s, updateOn |-> "undefined"] :
                 n \in {"undefined", "alt"}, s \in BOOLEAN}
        \cup {[defined |-> TRUE, name |-> "undefined", standalone |-> FALSE, updateOn |-> "blur"]}

\* the handlers of NgBindModel also change the directive's fields, the
\* controls' updateOn, the control a directive holds and the form's list
NgWorld(op, d, v) ==
    [ctl |-> ctl, viewModel |-> viewModel, submitted |-> submitted,
     log |-> Begin(op, d, dirCtl[d], v),
     name |-> name, _registered |-> _registered, microtasks |-> microtasks,
     updateOn |-> updateOn, dirCtl |-> dirCtl, directives |-> directives]

NgCommit(w) ==
    /\ Commit(w)
    /\ name' = w.name
    /\ _registered' = w._registered
    /\ microtasks' = w.microtasks
    /\ updateOn' = w.updateOn
    /\ dirCtl' = w.dirCtl
    /\ directives' = w.directives

Throw(w, error) == [w EXCEPT !.log.throws = error]
Thrown(w) == w.log.throws # "none"

_isStandalone(d) == _parent[d] = "null" \/ (options[d].defined /\ options[d].standalone)

_checkParentType(w, d) ==
    IF _parent[d] # "NgBindModelGroup" /\ _parent[d] \in AbstractBindFormGroupDirectives
    THEN Throw(w, "formGroupNameException")
    ELSE IF _parent[d] # "NgBindModelGroup" /\ _parent[d] # "NgBindFormDirective"
    THEN Throw(w, "modelParentException")
    ELSE w

\* _checkName that never throws
_checkNameNoThrow(w, d) ==
    IF options[d].defined /\ options[d].name # "undefined"
    THEN [w EXCEPT !.name[d] = options[d].name]
    ELSE w

_checkName(w, d) ==
    LET w1 == IF options[d].defined /\ options[d].name # "undefined"
              THEN [w EXCEPT !.name[d] = options[d].name]
              ELSE w
    IN IF ~_isStandalone(d) /\ w1.name[d] = "undefined"
       THEN Throw(w1, "missingNameException")
       ELSE w1

_checkForErrors(w, d) ==
    LET w1 == IF ~_isStandalone(d) THEN _checkParentType(w, d) ELSE w
    IN IF Thrown(w1) THEN w1 ELSE _checkName(w1, d)

_setUpdateStrategy(w, d) ==
    IF options[d].defined /\ options[d].updateOn # "undefined"
    THEN [w EXCEPT !.updateOn[w.dirCtl[d]] = options[d].updateOn]
    ELSE w

\* setUpControl(this.control, this); updateValueAndValidity changes no field
\* of the model
_setUpStandalone(w, d) == setUpControl(w, w.dirCtl[d], d)

Task(kind, d, v) == [kind |-> kind, dir |-> d, value |-> v]

\* NgBindFormDirective.addControl: the registration is left to a microtask
formDirective_addControl(w, d) ==
    [w EXCEPT !.log.addControl = Append(@, d),
              !.microtasks = Append(@, Task("addControl", d, "null"))]

\* _setUpControl that leaves _registered as it is
NgModel_setUpControlStaysUnregistered(w, d) ==
    LET w1 == _setUpdateStrategy(w, d)
    IN IF _isStandalone(d) THEN _setUpStandalone(w1, d) ELSE formDirective_addControl(w1, d)

NgModel_setUpControl(w, d) ==
    LET w1 == _setUpdateStrategy(w, d)
        w2 == IF _isStandalone(d) THEN _setUpStandalone(w1, d)
              ELSE formDirective_addControl(w1, d)
    IN [w2 EXCEPT !._registered[d] = TRUE]

_updateValue(w, d, value) ==
    [w EXCEPT !.microtasks = Append(@, Task("setValue", d, value))]

\* the directives of the form registered under the name of d
SameName(w, d) ==
    {i \in DOMAIN w.directives : w.name[w.directives[i]] = w.name[d]}

\* BindFormGroup.registerControl(name, control): the control already
\* registered under the name, or else the control passed in
registerControl(w, d) ==
    IF SameName(w, d) # {}
    THEN w.dirCtl[w.directives[CHOOSE i \in SameName(w, d) : \A j \in SameName(w, d) : i <= j]]
    ELSE w.dirCtl[d]

\* the callback NgBindFormDirective.addControl passes to resolvedPromise.then
addControlTask(w, d) ==
    LET w1 == [w EXCEPT !.dirCtl[d] = registerControl(w, d)]
        w2 == setUpControl(w1, w1.dirCtl[d], d)
    IN [w2 EXCEPT !.directives = Append(@, d)]

\* the callback _updateValue passes to resolvedPromise.then
setValueTask(w, d, value) == setValue(w, w.dirCtl[d], value, TRUE, FALSE)

Queued(d) == {i \in DOMAIN microtasks : microtasks[i].dir = d}

\* NgBindModel.ngOnChanges(changes), where changes holds the model input or
\* is empty
NgModel_ngOnChanges(d, modelChanged, model) ==
    /\ Queued(d) = {}
    /\ LET w0 == NgWorld("ngOnChanges", d, IF modelChanged THEN model ELSE "undefined")
           w1 == _checkForErrors(w0, d)
           w2 == IF ~w1._registered[d] THEN NgModel_setUpControl(w1, d) ELSE w1
           updated == isPropertyUpdated(d, modelChanged, model)
           w3 == IF updated
                 THEN [_updateValue(w2, d, model) EXCEPT !.viewModel[d] = model]
                 ELSE w2
       IN /\ NgCommit(IF Thrown(w1) THEN w1 ELSE w3)
          /\ firstChange' = [firstChange EXCEPT ![d] = @ /\ (Thrown(w1) \/ ~modelChanged)]
    /\ UNCHANGED <<transformer, formCall, composeVars, asyncVars, builtinVars,
                   cls, hasSetDisabledState, devMode, _ngModelWarningConfig,
                   _ngModelWarningSentOnce, _ngModelWarningSent, warnings,
                   _parent, nameAttribute, options, accessorVars>>

\* the microtask queue runs its first callback
RunMicrotask ==
    /\ microtasks # <<>>
    /\ LET t == Head(microtasks)
           w0 == [NgWorld(t.kind, t.dir, t.value) EXCEPT !.microtasks = Tail(@)]
       IN NgCommit(IF t.kind = "addControl" THEN addControlTask(w0, t.dir)
                   ELSE setValueTask(w0, t.dir, t.value))
    /\ UNCHANGED <<transformer, formCall, composeVars, asyncVars, builtinVars,
                   reactiveVars, _parent, nameAttribute, options, accessorVars>>

\* Directives are interchangeable: a set of them is drawn once per renaming,
\* in the order of their configuration.
ParentRank(p) ==
    CASE p = "null" -> 0 [] p = "NgBindFormDirective" -> 1
      [] p = "BindFormGroupName" -> 2 [] OTHER -> 3
OptionsRank(o) ==
    (IF o.defined THEN 1 ELSE 0) + (IF o.name # "undefined" THEN 2 ELSE 0)
        + (IF o.standalone THEN 4 ELSE 0) + (IF o.updateOn # "undefined" THEN 8 ELSE 0)
ConfigRank(d) ==
    32 * ParentRank(_parent[d]) + 16 * (IF nameAttribute[d] = "undefined" THEN 0 ELSE 1)
        + OptionsRank(options[d])

InitNgModel ==
    /\ ctl = [c \in Controls |-> InitControl]
    /\ updateOn = [c \in Controls |-> "change"]
    /\ transformer = [c \in Controls |-> "none"]
    /\ dirCtl = [d \in Dirs |-> IF d \in NgModels THEN d ELSE 0]
    /\ viewModel = [d \in Dirs |-> "undefined"]
    /\ directives = <<>>
    /\ submitted = FALSE
    /\ formCall = "none"
    /\ last = NoLog
    /\ _parent \in [NgModels -> ParentKinds]
    /\ nameAttribute \in [NgModels -> NameAttributes]
    /\ options \in [NgModels -> OptionsInputs]
    /\ \A d1, d2 \in NgModels : d1 < d2 => ConfigRank(d1) <= ConfigRank(d2)
    /\ name = nameAttribute
    /\ _registered = [d \in NgModels |-> FALSE]
    /\ microtasks = <<>>
    /\ ReactiveIdle /\ AccessorIdle
    /\ ComposeIdle /\ AsyncIdle /\ BuiltinIdle

NextNgModel ==
    \/ \E d \in NgModels, modelChanged \in BOOLEAN : NgModel_ngOnChanges(d, modelChanged, "a")
    \/ RunMicrotask

SpecNgModel == InitNgModel /\ [][NextNgModel]_vars

\* the calls of setUpControl with directive d, on any control
SetUps(d) ==
    {<<c, i>> \in Controls \X (1..(2 * NumDirs)) :
        i \in DOMAIN ctl[c].onChange /\ ctl[c].onChange[i] = d}

\* C16: a standalone NgBindModel (options.standalone, or no parent) is never
\* passed to formDirective.addControl and never enters the form's directives;
\* its ngOnChanges throws no error, whether it has a name or not; once it is
\* registered its own control has been set up with setUpControl, by exactly
\* one call, and no further call follows however often ngOnChanges runs.
C16_StandaloneSetUpOnce ==
    \A d \in NgModels :
        _isStandalone(d)
        => /\ \A i \in DOMAIN last.addControl : last.addControl[i] # d
           /\ \A i \in DOMAIN microtasks : microtasks[i].kind = "addControl" => microtasks[i].dir # d
           /\ d \notin Registered
           /\ (last.op = "ngOnChanges" /\ last.dir = d) => last.throws = "none"
           /\ dirCtl[d] = d
           /\ ctl[d].onChange = IF _registered[d] THEN <<d>> ELSE <<>>

\* a standalone directive with a parent and without a name whose ngOnChanges
\* has run again after its set-up
C16_Witness ==
    \E d \in NgModels :
        /\ _parent[d] = "NgBindFormDirective"
        /\ options[d].standalone
        /\ name[d] = "undefined"
        /\ _registered[d]
        /\ last.op = "ngOnChanges" /\ last.dir = d
        /\ last.setUp = <<>>
        /\ ctl[d].onChange = <<d>>
        /\ ~firstChange[d]

\* the name attribute and options.name are both missing
Nameless(d) == nameAttribute[d] = "undefined" /\ options[d].name = "undefined"

\* C17: an NgBindModel whose parent is the form directive, not standalone,
\* with neither a name attribute nor options.name: its ngOnChanges throws
\* the missing-name error, _registered stays false, and neither addControl nor
\* setUpControl is ever called with it.  Whenever _checkName has run with
\* options.name set, name is options.name, whatever the name attribute is.
C17_MissingNameThrows ==
    \A d \in NgModels :
        /\ (_parent[d] = "NgBindFormDirective" /\ ~_isStandalone(d) /\ Nameless(d))
           => /\ (last.op = "ngOnChanges" /\ last.dir = d)
                 => /\ last.throws = "missingNameException"
                    /\ last.addControl = <<>>
                    /\ last.setUp = <<>>
              /\ ~_registered[d]
              /\ Queued(d) = {}
              /\ d \notin Registered
              /\ SetUps(d) = {}
        /\ (/\ last.op = "ngOnChanges" /\ last.dir = d
            /\ last.throws \notin {"formGroupNameException", "modelParentException"}
            /\ options[d].name # "undefined")
           => name[d] = options[d].name

\* ngOnChanges has thrown the missing-name error
C17_Witness ==
    \E d \in NgModels :
        /\ _parent[d] = "NgBindFormDirective" /\ ~_isStandalone(d) /\ Nameless(d)
        /\ last.op = "ngOnChanges" /\ last.dir = d
        /\ last.throws = "missingNameException"

(***************************************************************************)
(* DefaultBindValueAccessor.  The element's value is a string; an input    *)
(* event reports the value the element holds after it, a compositionend    *)
(* event the value the element holds then.                                 *)
(***************************************************************************)
\* what the element can hold while text is typed or composed
TypedChars == {"a", "b"}
TypedTexts == {JsString(cs) : cs \in BoundedSeq(TypedChars, MaxLen)}
\* what COMPOSITION_BUFFER_MODE is injected as (@Optional)
CompositionTokens == {"null", "true", "false"}

\* the constructor: the token, or !_isAndroid() when none is provided
DefaultBindValueAccessor(token, isAndroid) ==
    IF token = "null" THEN ~isAndroid ELSE token = "true"

FormIdle ==
    /\ ctl = [c \in Controls |-> InitControl]
    /\ updateOn = [c \in Controls |-> "change"]
    /\ transformer = [c \in Controls |-> "none"]
    /\ dirCtl = [d \in Dirs |-> 0]
    /\ viewModel = [d \in Dirs |-> "undefined"]
    /\ directives = <<>>
    /\ submitted = FALSE
    /\ formCall = "none"
    /\ last = NoLog

\* _handleInput that never buffers
_handleInputUnbuffered(value) == <<value>>

\* _handleInput(value): the calls of onChange it makes
_handleInput(value) ==
    IF ~_compositionMode \/ (_compositionMode /\ ~_composing) THEN <<value>> ELSE <<>>

\* the input event of the element
Input(value) ==
    /\ element' = value
    /\ domEvent' = [domEvent EXCEPT !.op = "input", !.arg = value,
                                    !.onChange = _handleInput(value),
                                    !.buffered = @ \/ _handleInput(value) = <<>>]
    /\ UNCHANGED <<_compositionMode, _composing, formVars, composeVars, asyncVars,
                   builtinVars, reactiveVars, ngModelVars>>

_compositionStart ==
    /\ _composing' = TRUE
    /\ domEvent' = [domEvent EXCEPT !.op = "compositionstart", !.arg = element,
                                    !.composition = "start", !.buffered = FALSE,
                                    !.onChange = <<>>]
    /\ UNCHANGED <<element, _compositionMode, formVars, composeVars, asyncVars,
                   builtinVars, reactiveVars, ngModelVars>>

\* _compositionEnd($event.target.value)
_compositionEnd ==
    /\ _composing' = FALSE
    /\ domEvent' = [domEvent EXCEPT !.op = "compositionend", !.arg = element,
                                    !.composition = "end",
                                    !.onChange = IF _compositionMode THEN <<element>> ELSE <<>>]
    /\ UNCHANGED <<element, _compositionMode, formVars, composeVars, asyncVars,
                   builtinVars, reactiveVars, ngModelVars>>

InitComposition ==
    /\ element = JsString(<<>>)
    /\ \E token \in CompositionTokens, isAndroid \in BOOLEAN :
          _compositionMode = DefaultBindValueAccessor(token, isAndroid)
    /\ _composing = FALSE
    /\ domEvent = NoEvent
    /\ FormIdle /\ ReactiveIdle /\ NgModelIdle
    /\ ComposeIdle /\ AsyncIdle /\ BuiltinIdle

NextComposition ==
    \/ \E value \in TypedTexts : Input(value)
    \/ _compositionStart
    \/ _compositionEnd

SpecComposition == InitComposition /\ [][NextComposition]_vars

\* C19: with composition mode on, an input event after a compositionstart
\* and before the compositionend calls onChange not at all, and compositionend
\* calls it exactly once, with the value the element then holds; with
\* composition mode off, every input event calls onChange once with its value
\* and compositionend calls nothing.
C19_CompositionBuffered ==
    /\ _compositionMode
       => /\ (domEvent.op = "input" /\ domEvent.composition = "start")
             => domEvent.onChange = <<>>
          /\ domEvent.op = "compositionend"
             => domEvent.onChange = <<element>>
    /\ ~_compositionMode
       => /\ domEvent.op = "input" => domEvent.onChange = <<domEvent.arg>>
          /\ domEvent.op = "compositionend" => domEvent.onChange = <<>>

\* a compositionend that hands over a value typed during the composition
C19_Witness ==
    /\ _compositionMode
    /\ domEvent.op = "compositionend"
    /\ domEvent.buffered
    /\ element # JsString(<<>>)
    /\ domEvent.onChange = <<element>>

(***************************************************************************)
(* NumberBindValueAccessor.  writeValue hands the renderer the value for   *)
(* the element's value property; the input and change events report the   *)
(* element's value as a string.                                            *)
(***************************************************************************)
\* what a number input can be made to hold
InputTexts == {JsString(cs) : cs \in BoundedSeq(Chars, MaxLen)}

\* what writeValue is called with: null, undefined, numbers, booleans
WrittenVals == {v \in JsVals : v.kind \notin {"string", "array"}}

\* what the registered callback receives: null or a parsed number
ReceivedNull == [null |-> TRUE, number |-> NaN]
ReceivedNumber(n) == [null |-> FALSE, number |-> n]

\* the element's value as its events report it
TargetValue(v) == IF v.kind = "string" THEN v ELSE JsString(JsToString(v))

\* the wrapper of registerOnChange without the test for ''
registerOnChangeParsesEmpty(value) == ReceivedNumber(parseFloat(value))

\* the function registerOnChange stores in onChange: what fn is called with
registerOnChange(value) == IF value = JsString(<<>>) THEN ReceivedNull ELSE ReceivedNumber(parseFloat(value))

\* NumberBindValueAccessor.writeValue(value)
NumberWriteValue(value) ==
    /\ element' = IF value.kind \in {"null", "undefined"} THEN JsString(<<>>) ELSE value
    /\ domEvent' = [NoEvent EXCEPT !.op = "writeValue", !.arg = value, !.written = value]
    /\ UNCHANGED <<_compositionMode, _composing, formVars, composeVars, asyncVars,
                   builtinVars, reactiveVars, ngModelVars>>

\* the input event: the user has made the element hold value
NumberInput(value) ==
    /\ element' = value
    /\ domEvent' = [NoEvent EXCEPT !.op = "input", !.arg = value,
                                   !.onChange = <<registerOnChange(value)>>]
    /\ UNCHANGED <<_compositionMode, _composing, formVars, composeVars, asyncVars,
                   builtinVars, reactiveVars, ngModelVars>>

\* the change event: the element's value is read back as it is
NumberChange ==
    /\ domEvent' = [domEvent EXCEPT !.op = "change", !.arg = TargetValue(element),
                                    !.onChange = <<registerOnChange(TargetValue(element))>>]
    /\ UNCHANGED <<element, _compositionMode, _composing, formVars, composeVars,
                   asyncVars, builtinVars, reactiveVars, ngModelVars>>

InitNumber ==
    /\ element = JsString(<<>>)
    /\ _compositionMode = FALSE
    /\ _composing = FALSE
    /\ domEvent = NoEvent
    /\ FormIdle /\ ReactiveIdle /\ NgModelIdle
    /\ ComposeIdle /\ AsyncIdle /\ BuiltinIdle

NextNumber ==
    \/ \E value \in WrittenVals : NumberWriteValue(value)
    \/ \E value \in InputTexts : NumberInput(value)
    \/ NumberChange

SpecNumber == InitNumber /\ [][NextNumber]_vars

\* C20: writeValue hands the element '' for null and undefined and the
\* value itself for every other value; the registered callback receives
\* null when the element's value is '' and parseFloat of it otherwise; the
\* value read back right after writeValue(null) is null.
C20_NullIsEmptyString ==
    /\ domEvent.op = "writeValue"
       => element = IF domEvent.arg \in {JsNull, JsUndefined}
                    THEN JsString(<<>>) ELSE domEvent.arg
    /\ domEvent.op \in {"input", "change"}
       => /\ Len(domEvent.onChange) = 1
          /\ domEvent.onChange[1].null <=> Length(domEvent.arg) = 0
          /\ ~domEvent.onChange[1].null
             => domEvent.onChange[1].number = parseFloat(domEvent.arg)
    /\ (domEvent.op = "change" /\ domEvent.written = JsNull)
       => domEvent.onChange = <<ReceivedNull>>

\* null written and read back
C20_Witness ==
    /\ domEvent.op = "change"
    /\ domEvent.written = JsNull
    /\ element = JsString(<<>>)
    /\ domEvent.onChange = <<ReceivedNull>>

====
